---- MODULE Spec2Model ----
(***************************************************************************)
(* Model of aws/asg/confused_deputy/lambda_function.py: the remediation    *)
(* handler that, for every launched instance of an event, looks up the     *)
(* visibility of its AMI and, when the AMI is public, suspends the owning  *)
(* Auto Scaling Group, terminates the instance and files a Security Hub    *)
(* finding.  The three AWS clients are the environment: every call either  *)
(* raises or returns, chosen nondeterministically at the call.             *)
(***************************************************************************)
EXTENDS Integers, Sequences, FiniteSets, TLC

VARIABLES event, pc, pos, instance_id, ami_id, asg_name, calls, response

vars == <<event, pc, pos, instance_id, ami_id, asg_name, calls, response>>

(* ---------------- bounds of the explored inputs ---------------- *)
MaxItems == 2
MaxTags == 2

InstanceIds == {"i-1", "i-2"}
ImageIds == {"ami-1"}
AsgKey == "aws:autoscaling:groupName"
TagChoices == { [key |-> AsgKey, value |-> "my-asg"],
                [key |-> AsgKey, value |-> ""],
                [key |-> "Name", value |-> "my-asg"] }

SeqsUpTo(S, n) == UNION { [1..k -> S] : k \in 0..n }

TagLists == SeqsUpTo(TagChoices, MaxTags)
Items == [instanceId : InstanceIds, imageId : ImageIds, tagSet : [items : TagLists]]
(* MaxTags bounds the number of tags of the whole event. *)
RECURSIVE TotalTags(_)
TotalTags(its) ==
    IF its = <<>> THEN 0 ELSE Len(Head(its).tagSet.items) + TotalTags(Tail(its))

Events == { [account |-> "123456789012", region |-> "eu-west-2",
             detail |-> [eventTime |-> "2024-05-01T10:00:00Z",
                         responseElements |-> [instancesSet |-> [items |-> its]]]]
            : its \in { s \in SeqsUpTo(Items, MaxItems) : TotalTags(s) <= MaxTags } }

(* Python's None is the empty sequence, a string s is <<s>>. *)
None == <<>>
Some(s) == <<s>>

(* ---------------- pure parts of the handler ---------------- *)
EventItems(ev) == ev.detail.responseElements.instancesSet.items

(* The order in which the for loop visits the items of a list of length n. *)
ItemOrderReversed(n) == [k \in 1..n |-> n + 1 - k]
ItemOrder(n) == [k \in 1..n |-> k]

(* Tag scan: the value of the first tag with the group key, else None. *)
RECURSIVE ScanTags(_, _)
ScanTags(tags, k) ==
    IF k > Len(tags) THEN None
    ELSE IF tags[k].key = AsgKey THEN Some(tags[k].value)
    ELSE ScanTags(tags, k + 1)

RECURSIVE ScanTagsLast(_, _, _)
ScanTagsLast(tags, k, acc) ==
    IF k > Len(tags) THEN acc
    ELSE IF tags[k].key = AsgKey THEN ScanTagsLast(tags, k + 1, Some(tags[k].value))
    ELSE ScanTagsLast(tags, k + 1, acc)

FindAsgNameNoBreak(tags) == ScanTagsLast(tags, 1, None)
FindAsgName(tags) == ScanTags(tags, 1)

(* Python truthiness of an Optional[str]: None and "" are falsy. *)
Truthy(v) == v # None /\ v[1] # ""

(* json.dumps of a str (no character of the strings used needs escaping). *)
JsonDumpsRaw(s) == s
JsonDumps(s) == "\"" \o s \o "\""

EventDetails(timestamp, iid, image, account, region, asg) ==
    [timestamp |-> timestamp, instance_id |-> iid, image_id |-> image,
     account_id |-> account, region |-> region, auto_scaling_group_name |-> asg]

AsgField(asg) == IF Truthy(asg) THEN asg[1] ELSE "Not part of an ASG"

Finding(d) ==
    [SchemaVersion |-> "2018-10-08",
     Id |-> d.instance_id \o "/compliance-check",
     ProductArn |-> "arn:aws:securityhub:" \o d.region \o ":" \o d.account_id
                     \o ":product/" \o d.account_id \o "/default",
     GeneratorId |-> "custom-compliance-check",
     AwsAccountId |-> d.account_id,
     Types |-> <<"Software and Configuration Checks/Industry and Regulatory Standards">>,
     CreatedAt |-> d.timestamp,
     UpdatedAt |-> d.timestamp,
     Severity |-> [Label |-> "HIGH"],
     Title |-> "EC2 Instance Non-Compliance with Company Standards",
     Description |-> "EC2 instance " \o d.instance_id \o " with AMI " \o d.image_id
                      \o " is non-compliant and was terminated.",
     Resources |-> << [Type |-> "AwsEc2Instance", Id |-> d.instance_id,
                       Partition |-> "aws", Region |-> d.region,
                       Details |-> [AwsEc2Instance |-> [ImageId |-> d.image_id],
                                    Other |-> [AutoScalingGroupName |->
                                                 AsgField(d.auto_scaling_group_name)]]] >>,
     Compliance |-> [Status |-> "FAILED"],
     RecordState |-> "ACTIVE"]

SuccessResponse == [statusCode |-> 200, body |-> JsonDumps("Evaluation complete.")]

(* ---------------- control flow after each service call ---------------- *)
(* describe_images: an exception propagates; Images[0] of an empty list     *)
(* raises IndexError; a private image skips the item.                       *)
AfterDescribeIgnoringPublic(ok, images, asg) ==
    IF ~ok \/ Len(images) = 0 THEN "failed"
    ELSE IF Truthy(asg) THEN "suspend" ELSE "terminate"
AfterDescribeAlwaysSuspend(ok, images, asg) ==
    IF ~ok \/ Len(images) = 0 THEN "failed"
    ELSE IF images[1].Public THEN "suspend"
    ELSE "next"
AfterDescribeNeverSuspend(ok, images, asg) ==
    IF ~ok \/ Len(images) = 0 THEN "failed"
    ELSE IF images[1].Public THEN "terminate"
    ELSE "next"
AfterDescribe(ok, images, asg) ==
    IF ~ok \/ Len(images) = 0 THEN "failed"
    ELSE IF images[1].Public THEN (IF Truthy(asg) THEN "suspend" ELSE "terminate")
    ELSE "next"

(* suspend_processes and terminate_instances sit in try/except Exception. *)
AfterSuspendUncaught(ok) == IF ok THEN "terminate" ELSE "failed"
AfterSuspend(ok) == "terminate"

AfterTerminateSkipSend(ok) == IF ok THEN "send" ELSE "next"
AfterTerminateUncaught(ok) == IF ok THEN "send" ELSE "failed"
AfterTerminate(ok) == "send"

(* batch_import_findings is not guarded: an exception leaves the handler. *)
AfterSendCaught(ok) == "next"
AfterSend(ok) == IF ok THEN "next" ELSE "failed"

(* ---------------- the state machine ---------------- *)
Call(op, arg, ok, ret) ==
    [item |-> ItemOrder(Len(EventItems(event)))[pos], op |-> op, arg |-> arg,
     ok |-> ok, ret |-> ret]

Goto(target) ==
    IF target = "next"
    THEN pc' = "loop" /\ pos' = pos + 1
    ELSE pc' = target /\ pos' = pos

Init ==
    /\ event \in Events
    /\ pc = "loop"
    /\ pos = 1
    /\ instance_id = None
    /\ ami_id = None
    /\ asg_name = None
    /\ calls = <<>>
    /\ response = None

(* Loop head and lines 68-76: bind the item's fields and scan its tags. *)
NextItem ==
    /\ pc = "loop"
    /\ pos <= Len(EventItems(event))
    /\ LET item == EventItems(event)[ItemOrder(Len(EventItems(event)))[pos]] IN
         /\ instance_id' = Some(item.instanceId)
         /\ ami_id' = Some(item.imageId)
         /\ asg_name' = FindAsgName(item.tagSet.items)
    /\ pc' = "describe"
    /\ UNCHANGED <<event, pos, calls, response>>

DescribeResults == { <<>>, <<[Public |-> TRUE]>>, <<[Public |-> FALSE]>> }

DescribeImages ==
    /\ pc = "describe"
    /\ \E ok \in BOOLEAN :
         \E images \in (IF ok THEN DescribeResults ELSE {<<>>}) :
           /\ calls' = Append(calls, Call("describe_images", ami_id, ok, images))
           /\ Goto(AfterDescribe(ok, images, asg_name))
    /\ UNCHANGED <<event, instance_id, ami_id, asg_name, response>>

SuspendProcesses ==
    /\ pc = "suspend"
    /\ \E ok \in BOOLEAN :
         /\ calls' = Append(calls, Call("suspend_processes", asg_name, ok, <<>>))
         /\ Goto(AfterSuspend(ok))
    /\ UNCHANGED <<event, instance_id, ami_id, asg_name, response>>

TerminateInstances ==
    /\ pc = "terminate"
    /\ \E ok \in BOOLEAN :
         /\ calls' = Append(calls, Call("terminate_instances", instance_id, ok, <<>>))
         /\ Goto(AfterTerminate(ok))
    /\ UNCHANGED <<event, instance_id, ami_id, asg_name, response>>

send_invalid_ami_event_to_security_hub ==
    /\ pc = "send"
    /\ LET d == EventDetails(event.detail.eventTime, instance_id[1], ami_id[1],
                             event.account, event.region, asg_name) IN
         \E ok \in BOOLEAN :
           /\ calls' = Append(calls, Call("batch_import_findings", <<Finding(d)>>, ok, <<>>))
           /\ Goto(AfterSend(ok))
    /\ UNCHANGED <<event, instance_id, ami_id, asg_name, response>>

Return ==
    /\ pc = "loop"
    /\ pos > Len(EventItems(event))
    /\ response' = Some(SuccessResponse)
    /\ pc' = "done"
    /\ UNCHANGED <<event, pos, instance_id, ami_id, asg_name, calls>>

Next ==
    \/ NextItem
    \/ DescribeImages
    \/ SuspendProcesses
    \/ TerminateInstances
    \/ send_invalid_ami_event_to_security_hub
    \/ Return

Spec == Init /\ [][Next]_vars

Ended == pc \in {"done", "failed"}
TypeOK ==
    /\ pc \in {"loop", "describe", "suspend", "terminate", "send", "done", "failed"}
    /\ pos \in 1..(Len(EventItems(event)) + 1)
    /\ (response # None) <=> (pc = "done")

(* ---------------- vocabulary of the properties ---------------- *)
NumItems == Len(EventItems(event))
ItemIdx == 1..NumItems
ItemTags(i) == EventItems(event)[i].tagSet.items
Idx == 1..Len(calls)
Remediations == {"suspend_processes", "terminate_instances", "batch_import_findings"}

CallsFor(i, op) == { k \in Idx : calls[k].item = i /\ calls[k].op = op }
Called(i, op) == CallsFor(i, op) # {}
FailedCall(i, op) == \E k \in CallsFor(i, op) : ~calls[k].ok

ReportedPublic(i) ==
    \E k \in CallsFor(i, "describe_images") :
        calls[k].ok /\ Len(calls[k].ret) = 1 /\ calls[k].ret[1].Public
ReportedPrivate(i) ==
    \E k \in CallsFor(i, "describe_images") :
        calls[k].ok /\ Len(calls[k].ret) = 1 /\ ~calls[k].ret[1].Public

(* The item's tag list, read directly: positions of the group-key tags. *)
GroupTagPositions(i) == { k \in 1..Len(ItemTags(i)) : ItemTags(i)[k].key = AsgKey }
FirstGroupTag(i) == CHOOSE k \in GroupTagPositions(i) : \A j \in GroupTagPositions(i) : k <= j
HasGroupName(i) == GroupTagPositions(i) # {} /\ ItemTags(i)[FirstGroupTag(i)].value # ""
GroupName(i) == ItemTags(i)[FirstGroupTag(i)].value

FindingGroupName(k) == calls[k].arg[1].Resources[1].Details.Other.AutoScalingGroupName
Fatal(k) ==
    \/ calls[k].op = "batch_import_findings" /\ ~calls[k].ok
    \/ calls[k].op = "describe_images" /\ (~calls[k].ok \/ Len(calls[k].ret) = 0)
NoFatalBefore(j) == \A k \in Idx : calls[k].item < j => ~Fatal(k)

TerminatedInstances == { calls[k].arg[1] : k \in { n \in Idx : calls[n].op = "terminate_instances" } }
FindingInstances ==
    { calls[k].arg[1].Resources[1].Id : k \in { n \in Idx : calls[n].op = "batch_import_findings" } }
TerminatedItems == { i \in ItemIdx : Called(i, "terminate_instances") }
FindingItems == { i \in ItemIdx : Called(i, "batch_import_findings") }

(* C1: for an item whose image lookup reports a private image, no          *)
(* suspend_processes, terminate_instances or batch_import_findings call is *)
(* made for that item.                                                     *)
C1_PrivateUntouched ==
    \A i \in ItemIdx : ReportedPrivate(i) => \A op \in Remediations : ~Called(i, op)
C1_Witness ==
    /\ pc = "done" /\ NumItems = 2
    /\ ReportedPrivate(2) /\ Called(1, "batch_import_findings")

(* C2: when the invocation has ended, by return or by exception, the       *)
(* instances (and items) for which batch_import_findings was called are    *)
(* exactly those for which terminate_instances was called.                 *)
C2_FindingIffTermination ==
    Ended => /\ FindingInstances = TerminatedInstances
             /\ FindingItems = TerminatedItems
C2_Witness ==
    /\ pc = "failed" /\ Cardinality(TerminatedInstances) = 2
    /\ FailedCall(1, "terminate_instances") /\ FailedCall(2, "batch_import_findings")

(* C3: for a public-image item with a group name, the suspend_processes    *)
(* call for that group precedes the terminate_instances call for the       *)
(* instance, which precedes the batch_import_findings call; all three are  *)
(* made once the item has been processed.                                  *)
C3_SuspendTerminateReport ==
    \A i \in ItemIdx : ReportedPublic(i) /\ HasGroupName(i) =>
        /\ \A t \in CallsFor(i, "terminate_instances") :
              \E s \in CallsFor(i, "suspend_processes") :
                  s < t /\ calls[s].arg = <<GroupName(i)>>
        /\ \A b \in CallsFor(i, "batch_import_findings") :
              \E t \in CallsFor(i, "terminate_instances") :
                  t < b /\ calls[t].arg = <<EventItems(event)[i].instanceId>>
        /\ (Ended \/ calls[Len(calls)].item > i) =>
              \A op \in Remediations : Cardinality(CallsFor(i, op)) = 1
C3_Witness ==
    /\ pc = "done" /\ NumItems >= 1
    /\ ReportedPublic(1) /\ HasGroupName(1)
    /\ Len(ItemTags(1)) = 2 /\ ItemTags(1)[1].key # AsgKey
    /\ Called(1, "batch_import_findings")

(* C4: a failed suspend_processes or terminate_instances call for an item  *)
(* prevents neither the finding submission of that item nor the lookup     *)
(* and remediation of the item after it.                                   *)
C4_CaughtFailuresContinue ==
    Ended => \A i \in ItemIdx :
        (FailedCall(i, "suspend_processes") \/ FailedCall(i, "terminate_instances")) =>
            /\ Called(i, "terminate_instances")
            /\ Called(i, "batch_import_findings")
            /\ (i < NumItems /\ ~FailedCall(i, "batch_import_findings")) =>
                  /\ Called(i + 1, "describe_images")
                  /\ ReportedPublic(i + 1) =>
                        /\ Called(i + 1, "terminate_instances")
                        /\ Called(i + 1, "batch_import_findings")
C4_Witness ==
    /\ pc = "done" /\ NumItems = 2
    /\ FailedCall(1, "suspend_processes") /\ FailedCall(1, "terminate_instances")
    /\ Called(1, "batch_import_findings") /\ Called(2, "batch_import_findings")

(* C5 as stated: every invocation ends by returning the fixed response,    *)
(* whichever service calls fail.                                           *)
C5_AlwaysReturns ==
    Ended => response = <<[statusCode |-> 200, body |-> "\"Evaluation complete.\""]>>

(* C5 amended: the invocation always ends; it returns the fixed response   *)
(* exactly when every describe_images call returned an image and every     *)
(* batch_import_findings call succeeded, whatever suspend_processes and    *)
(* terminate_instances did; otherwise it raises and returns nothing.       *)
C5_ReturnsUnlessFatal ==
    /\ ~Ended => ENABLED Next
    /\ ~Ended => response = None
    /\ Ended =>
         /\ (\A k \in Idx : ~Fatal(k)) =>
               response = <<[statusCode |-> 200, body |-> "\"Evaluation complete.\""]>>
         /\ (\E k \in Idx : Fatal(k)) => response = None
C5_Witness ==
    /\ pc = "done"
    /\ \E i \in ItemIdx : FailedCall(i, "suspend_processes")
    /\ \E i \in ItemIdx : FailedCall(i, "terminate_instances")

(* C6 as stated: the finding's AutoScalingGroupName is the value of a tag  *)
(* with the group key whenever such a tag is present, whatever that value, *)
(* and the literal otherwise.                                              *)
C6_GroupNameIsTagValue ==
    \A i \in ItemIdx : \A b \in CallsFor(i, "batch_import_findings") :
        IF GroupTagPositions(i) # {}
        THEN \E k \in GroupTagPositions(i) : FindingGroupName(b) = ItemTags(i)[k].value
        ELSE FindingGroupName(b) = "Not part of an ASG"

(* C6 amended: the finding's AutoScalingGroupName is the value of the      *)
(* first tag with the group key when that value is not empty, and the      *)
(* literal "Not part of an ASG" when no tag has the key or the first such  *)
(* tag has an empty value.                                                 *)
C6_GroupNameIsFirstNonEmpty ==
    \A i \in ItemIdx : \A b \in CallsFor(i, "batch_import_findings") :
        FindingGroupName(b) = IF HasGroupName(i) THEN GroupName(i) ELSE "Not part of an ASG"
C6_Witness ==
    \E i \in ItemIdx :
        /\ Called(i, "batch_import_findings")
        /\ Cardinality(GroupTagPositions(i)) = 2
        /\ ItemTags(i)[1].value = "my-asg" /\ ItemTags(i)[2].value = ""

(* C7 as stated: whatever fails for an earlier item, lookup and finding    *)
(* submission included, every later item is still looked up and, when      *)
(* public, terminated and reported.                                        *)
C7_AnyFailureContinues ==
    Ended => \A j \in ItemIdx :
        /\ Called(j, "describe_images")
        /\ ReportedPublic(j) => Called(j, "batch_import_findings")

(* C7 amended: whatever suspend_processes and terminate_instances failures *)
(* occur for earlier items, as long as no earlier lookup or finding        *)
(* submission failed, a later item is looked up and, when public, has its  *)
(* termination attempted and its finding submitted with its own group name.*)
C7_CaughtFailuresIndependent ==
    Ended => \A j \in ItemIdx : NoFatalBefore(j) =>
        /\ Called(j, "describe_images")
        /\ ReportedPublic(j) =>
              /\ Called(j, "terminate_instances")
              /\ \E b \in CallsFor(j, "batch_import_findings") :
                    calls[b].arg[1].Id = EventItems(event)[j].instanceId \o "/compliance-check"
C7_Witness ==
    /\ Ended /\ NumItems = 2
    /\ HasGroupName(1) /\ ~HasGroupName(2)
    /\ FailedCall(1, "suspend_processes") /\ FailedCall(1, "terminate_instances")
    /\ \E b \in CallsFor(1, "batch_import_findings") : FindingGroupName(b) = "my-asg"
    /\ \E b \in CallsFor(2, "batch_import_findings") : FindingGroupName(b) = "Not part of an ASG"

(* C8: a failed describe_images or batch_import_findings call is the last  *)
(* service call of the invocation, which ends as a failure and returns no  *)
(* response.                                                               *)
C8_FatalAborts ==
    \A k \in Idx :
        (calls[k].op \in {"describe_images", "batch_import_findings"} /\ ~calls[k].ok) =>
            k = Len(calls) /\ pc = "failed" /\ response = None
C8_Witness ==
    /\ pc = "failed" /\ NumItems = 2
    /\ FailedCall(1, "batch_import_findings")

(* C9: for a public-image item without a group name, suspend_processes is  *)
(* never called, while terminate_instances and batch_import_findings are.  *)
C9_NoGroupNoSuspend ==
    \A i \in ItemIdx : ReportedPublic(i) /\ ~HasGroupName(i) =>
        /\ ~Called(i, "suspend_processes")
        /\ (Ended \/ calls[Len(calls)].item > i) =>
              /\ Called(i, "terminate_instances")
              /\ Called(i, "batch_import_findings")
C9_Witness ==
    /\ pc = "done"
    /\ \E i \in ItemIdx :
          /\ GroupTagPositions(i) = {} /\ Len(ItemTags(i)) > 0
          /\ Called(i, "batch_import_findings")

(* C10: the service calls are made item by item in list order, and for     *)
(* each item describe_images is the first call.                            *)
C10_Sequential ==
    /\ \A k, l \in Idx : k < l => calls[k].item <= calls[l].item
    /\ \A l \in Idx : calls[l].op # "describe_images" =>
          \E k \in Idx : k < l /\ calls[k].item = calls[l].item
                               /\ calls[k].op = "describe_images"
    /\ \A i \in ItemIdx : Cardinality(CallsFor(i, "describe_images")) <= 1
C10_Witness ==
    /\ NumItems = 2
    /\ Called(1, "batch_import_findings") /\ Called(2, "batch_import_findings")
====
